---- MODULE Spec2Model ----
(***************************************************************************)
(* State-machine model of the indoor signage application: the App shell    *)
(* (src/App.tsx), the Player (src/components/Player.tsx) and the feed      *)
(* fetchers (services/geminiService, kept in src/unnamed/part_000).        *)
(*                                                                         *)
(* React is modelled at the grain the code can observe: an event handler   *)
(* runs to completion and commits one render; the passive effects of that  *)
(* render (useEffect) run in a following FlushEffects step, before any     *)
(* other event is handled.  `dirty` names the effects whose dependency     *)
(* list changed in the last commit.                                        *)
(*                                                                         *)
(* JavaScript numbers are exact rationals extended with Infinity and NaN   *)
(* (records [k, n, d]); rounding of IEEE doubles is not modelled.          *)
(***************************************************************************)
EXTENDS Integers, Sequences, FiniteSets, TLC

\* ------------------------------------------------------------------ bounds
MaxLen == 6           \* longest playlist of the counting specification
MaxInflight == 1      \* pending fetches per feed of the mounted Player
MaxLate == 0          \* fetches of earlier Players still pending when one starts
MaxHashEvents == 1    \* queued hashchange events
MaxStuck == 3         \* ticks followed on a slide whose progress only falls
MaxTicks == 165       \* ticks followed by the counting specification

\* ------------------------------------------------------- program constants
intervalTime == 100
DuckedVolume == 10    \* 0.1, in hundredths
NormalVolume == 40    \* 0.4, in hundredths
ElementVolume == 100  \* volume of a media element nobody has set yet

\* ------------------------------------------------------------ JS numbers
RECURSIVE GCD(_, _)
GCD(a, b) == IF b = 0 THEN a ELSE GCD(b, a % b)

Abs(x) == IF x < 0 THEN -x ELSE x

NaN == [k |-> "nan", n |-> 0, d |-> 1]
Infinity == [k |-> "inf", n |-> 1, d |-> 1]

\* the rational n/d (d # 0) in lowest terms with a positive denominator
Frac(n, d) ==
    LET g == GCD(Abs(n), Abs(d))
        s == IF d < 0 THEN -1 ELSE 1
    IN  [k |-> "fin", n |-> (s * n) \div g, d |-> (s * d) \div g]

Num(n) == Frac(n, 1)

\* x * y, x / y and x + y of JavaScript on the values the player computes
\* (no negative infinity arises: the only division by zero is 100 / 0)
NumMul(x, y) ==
    IF x.k = "nan" \/ y.k = "nan" THEN NaN
    ELSE IF x.k = "inf" \/ y.k = "inf"
         THEN (IF x.n = 0 \/ y.n = 0 THEN NaN ELSE Infinity)
    ELSE Frac(x.n * y.n, x.d * y.d)

NumDiv(x, y) ==
    IF x.k = "nan" \/ y.k = "nan" THEN NaN
    ELSE IF x.k = "inf" THEN (IF y.k = "inf" THEN NaN ELSE Infinity)
    ELSE IF y.k = "inf" THEN Num(0)
    ELSE IF y.n = 0 THEN (IF x.n = 0 THEN NaN ELSE Infinity)
    ELSE Frac(x.n * y.d, x.d * y.n)

NumAdd(x, y) ==
    IF x.k = "nan" \/ y.k = "nan" THEN NaN
    ELSE IF x.k = "inf" \/ y.k = "inf" THEN Infinity
    ELSE Frac(x.n * y.d + y.n * x.d, x.d * y.d)

\* x >= c for an integer c (every comparison with NaN is false)
NumGE(x, c) ==
    CASE x.k = "nan" -> FALSE
      [] x.k = "inf" -> TRUE
      [] OTHER -> x.n >= c * x.d

\* ------------------------------------------------------------------ data
\* MediaItem (src/types.ts): the fields the player reads.  audioEnabled is
\* "true", "false" or "undefined"; footerMessage "" stands for an absent one;
\* overlayStyle is <<>> when absent, <<style>> otherwise.
Slide(id, type, duration, audioEnabled, footerMessage) ==
    [id |-> id, type |-> type, duration |-> duration,
     audioEnabled |-> audioEnabled, footerMessage |-> footerMessage,
     overlayStyle |-> <<>>]

\* OverlayStyle (src/types.ts 58-63): each field is "undefined" when omitted;
\* isBold is "true", "false" or "undefined"
OverlayStyle(textColor, backgroundColor, isBold, fontSize) ==
    [textColor |-> textColor, backgroundColor |-> backgroundColor,
     isBold |-> isBold, fontSize |-> fontSize]

\* updateSlideStyle (Dashboard.tsx): the slide with an overlayStyle
Styled(slide, style) == [slide EXCEPT !.overlayStyle = <<style>>]

\* what playlist.items[i] yields outside the list
UndefinedItem == Slide("undefined", "undefined", NaN, "undefined", "")

\* Playlist (src/types.ts); audioUrl is "undefined", "" or a URL
Playlist(id, items, audioUrl, active) ==
    [id |-> id, items |-> items, audioUrl |-> audioUrl, active |-> active]

\* the value of state.activePlaylist when it is null
NullPlaylist == Playlist("null", <<>>, "undefined", FALSE)

\* a playlist of n image slides of d seconds each
Uniform(n, d) ==
    Playlist("p1", [i \in 1..n |-> Slide("m1", "IMAGE", Num(d), "undefined", "")],
             "undefined", TRUE)

\* versions of the saved playlist p1 the dashboard editor can produce
\* (removeSlide, updateSlideField: the duration field stores parseInt of the
\* input, which is any integer or NaN; updatePlaylistSettings: audioUrl)
MixPlaylist ==
    Playlist("p1",
             << Slide("m1", "IMAGE", Num(1), "undefined", "SALE TODAY"),
                Slide("m2", "VIDEO", Num(1), "true", ""),
                Slide("m5", "VIDEO", Num(1), "false", "") >>,
             "radio", TRUE)

SoloPlaylist ==
    Playlist("p1", << Slide("m4", "WIDGET_NEWS", Num(1), "undefined", "") >>, "", TRUE)

OddPlaylist ==
    Playlist("p1",
             << Slide("m2", "VIDEO", Num(0), "undefined", ""),
                Slide("m3", "WIDGET_WEATHER", Num(-1), "undefined", "") >>,
             "radio", TRUE)

Playlists == {MixPlaylist, SoloPlaylist, OddPlaylist}

\* a version of p1 that opens with a video
ClipPlaylist ==
    Playlist("p1",
             << Slide("m2", "VIDEO", Num(1), "true", ""),
                Slide("m1", "IMAGE", Num(1), "undefined", "") >>,
             "", TRUE)

\* ApiIntegration (src/types.ts): the fields the player reads
Integration(type, enabled, refreshInterval) ==
    [id |-> type, type |-> type, enabled |-> enabled, refreshInterval |-> refreshInterval]

AllFeeds ==
    << Integration("NEWS", TRUE, 15), Integration("WEATHER", TRUE, 60),
       Integration("FINANCE", TRUE, 30), Integration("SPORTS", TRUE, 5) >>

WeatherOff ==
    << Integration("NEWS", TRUE, 0), Integration("WEATHER", FALSE, 60) >>

NewsOnly == << Integration("NEWS", TRUE, 15) >>

\* two enabled integrations of one type (handleSaveIntegration appends a new
\* one of any type and stores the edited refreshInterval of an existing one)
NewsTwice ==
    << Integration("NEWS", TRUE, 0),
       [Integration("NEWS", TRUE, 15) EXCEPT !.id = "api_new"] >>

IntegrationLists == {AllFeeds, WeatherOff, NewsTwice}

Feeds == {"NEWS", "WEATHER", "SPORTS"}

\* Terminal (src/types.ts): MOCK_TERMINALS, the fields initializeState reads
Terminals ==
    << [id |-> "t1", currentPlaylistId |-> "p1"],
       [id |-> "t2", currentPlaylistId |-> "p1"],
       [id |-> "t3", currentPlaylistId |-> "p1"] >>

\* feed values
NewsDemo == << [source |-> "Sistema", headline |-> "Configure sua chave API"],
               [source |-> "Demo", headline |-> "O sistema de midia indoor"] >>
NewsData == << [source |-> "G1", headline |-> "manchete"] >>
NewsError == << [source |-> "Erro", headline |-> "Nao foi possivel atualizar as noticias."] >>
SportsDemo == << "Flamengo 2 x 1 Vasco", "Sao Paulo 0 x 0 Palmeiras" >>
SportsData == << "Gremio 1 x 1 Inter" >>

\* the integration form (currentIntegration): id "" for a new integration
Form(id, name, endpointUrl, type, enabled, refreshInterval) ==
    [id |-> id, name |-> name, endpointUrl |-> endpointUrl, type |-> type,
     enabled |-> enabled, refreshInterval |-> refreshInterval]

EmptyForm == Form("", "", "", "", TRUE, 0)

\* the modal closed, nothing under test
ModalClosed ==
    [show |-> FALSE, current |-> EmptyForm, urlTestStatus |-> "idle", awaiting |-> <<>>]

\* ------------------------------------------------------------------ state
VARIABLES
    \* App (src/App.tsx)
    mode,             \* useState 'dashboard' | 'player'
    state,            \* useState(initializeState): mode, activePlaylist, activeIntegrations
    hash,             \* window.location.hash
    terminalId,       \* the terminalId query parameter, "" when absent
    hashEvents,       \* hashchange events queued and not yet dispatched
    storedPlaylists,  \* localStorage indoor_playlists, parsed
    storedIntegrations, \* localStorage indoor_integrations, parsed
    \* Dashboard (src/components/Dashboard.tsx)
    savedPlaylists,   \* useState `playlists`: the saved playlists, loaded from storage
    editingPlaylist,  \* useState: the editor's working copy, NullPlaylist when null
    integrationModal, \* showIntegrationModal, currentIntegration, urlTestStatus and
                      \* the handleSaveIntegration call awaiting its URL check
    \* Player (src/components/Player.tsx)
    player,           \* "none", "mounted" or "crashed" (a render or effect threw)
    currentIndex, currentItem, progress, isOnline,
    news, weather, sportsMatches, isGlobalMuted,
    itemStale,        \* currentItem is not the object playlist.items[currentIndex]
    dirty,            \* effects of the last commit still to run
    timer,            \* the playback interval and what its closure captured
    feedTimers,       \* per feed, the refresh period in minutes, 0 when no interval
    inflight,         \* per feed, the pending fetches in start order, each "cur" or,
                      \* once a fetch started after it has answered, "overtaken"
    late,             \* pending fetches of Players that are gone
    audio,            \* the <audio> element
    video,            \* the <video> element
    \* environment
    hasApiKey,        \* process.env.API_KEY is set (the `ai` client exists)
    library,          \* the playlists, integration lists and terminal links in use
    isKioskMode,      \* the isKioskMode prop the Player is rendered with
    \* observation
    ticks,            \* interval callbacks run since the counting started
    advances,         \* calls of handleNext since the counting started
    startIndex        \* the index the counting started at

appVars == <<mode, state, hash, terminalId, hashEvents, storedPlaylists, storedIntegrations>>
playVars == <<currentIndex, currentItem, progress, isGlobalMuted, itemStale, timer>>
feedVars == <<news, weather, sportsMatches, feedTimers, inflight, late>>
dashVars == <<savedPlaylists, editingPlaylist, integrationModal>>
envVars == <<hasApiKey, library, isKioskMode>>
mediaVars == <<audio, video>>
countVars == <<ticks, advances, startIndex>>
vars == <<appVars, player, playVars, isOnline, dirty, feedVars, mediaVars,
          dashVars, envVars, countVars>>

\* ------------------------------------------------------------- App helpers
\* Array.prototype.find as a sequence of at most one element: the first of
\* the elements of seq at the indices `hits`, those that pass the test
Find(seq, hits) ==
    IF hits = {} THEN <<>>
    ELSE <<seq[CHOOSE i \in hits : \A j \in hits : i <= j]>>

\* state.activePlaylist || null is falsy
IsNull(p) == p.id = "null"

initializeState(h, tid, playlists, integrations) ==
    IF h = "#player"
    THEN LET terminal == IF tid # "" THEN Find(Terminals, {i \in DOMAIN Terminals : Terminals[i].id = tid}) ELSE <<>>
             byTerminal ==
                 IF terminal # <<>> /\ terminal[1].currentPlaylistId # ""
                 THEN Find(playlists, {i \in DOMAIN playlists :
                                          playlists[i].id = terminal[1].currentPlaylistId})
                 ELSE <<>>
             byActive == Find(playlists, {i \in DOMAIN playlists : playlists[i].active})
             targetPlaylist ==
                 IF byTerminal # <<>> THEN byTerminal
                 ELSE IF byActive # <<>> THEN byActive
                 ELSE IF playlists # <<>> THEN <<playlists[1]>>
                 ELSE <<>>
         IN  [mode |-> "player",
              activePlaylist |-> IF targetPlaylist # <<>> THEN targetPlaylist[1] ELSE NullPlaylist,
              activeIntegrations |-> integrations]
    ELSE [mode |-> "dashboard", activePlaylist |-> NullPlaylist, activeIntegrations |-> <<>>]

\* the render with the fallback test left out
View_NoFallback(m, st) == IF m = "dashboard" THEN "dashboard" ELSE "player"

\* what App renders: the error fallback, the Dashboard or the Player
View(m, st) ==
    IF st.mode = "player" /\ IsNull(st.activePlaylist) THEN "error"
    ELSE IF m = "dashboard" THEN "dashboard"
    ELSE "player"

\* ---------------------------------------------------------- Player helpers
Truthy(str) == str # "" /\ str # "undefined"

ItemAt(playlist, index) ==
    IF index + 1 \in DOMAIN playlist.items THEN playlist.items[index + 1] ELSE UndefinedItem

\* getIntegrationSettings without the type test
getIntegrationSettings_AnyType(integrations, type) ==
    Find(integrations, {i \in DOMAIN integrations : integrations[i].enabled})

getIntegrationSettings(integrations, type) ==
    Find(integrations, {i \in DOMAIN integrations :
                           integrations[i].type = type /\ integrations[i].enabled})

\* the period of the refresh interval the feed effect creates, 0 for none
RefreshPeriod(integrations, type) ==
    LET config == getIntegrationSettings(integrations, type)
    IN  IF config # <<>> /\ config[1].refreshInterval > 0
        THEN config[1].refreshInterval ELSE 0

\* step = 100 / (duration / intervalTime), duration = item.duration * 1000
StepOf(item) ==
    LET duration == NumMul(item.duration, Num(1000))
    IN  NumDiv(Num(100), NumDiv(duration, Num(intervalTime)))

\* handleNext skipping a slide
handleNext_Skip(prev, length) == (prev + 2) % length

handleNext(prev, length) == (prev + 1) % length

\* isVideoWithSound without the audioEnabled test
isVideoWithSound_AnyVideo(item) == item.type = "VIDEO"

isVideoWithSound(item) == item.type = "VIDEO" /\ item.audioEnabled # "false"

\* shouldPlayBackground without the mute test
shouldPlayBackground_Unmutable(playlist, muted) == Truthy(playlist.audioUrl)

shouldPlayBackground(playlist, muted) == Truthy(playlist.audioUrl) /\ ~muted

\* what the three fetchers resolve to: "ok" a parsed payload, "empty" a
\* response without text, "fail" a thrown request or parse error
fetchSimulatedNews(outcome) ==
    IF ~hasApiKey THEN NewsDemo
    ELSE CASE outcome = "ok" -> NewsData
           [] outcome = "empty" -> <<>>
           [] OTHER -> NewsError

fetchSimulatedWeather(outcome) ==
    IF ~hasApiKey THEN "demo"
    ELSE CASE outcome = "ok" -> "data"
           [] OTHER -> "null"

fetchSimulatedSports(outcome) ==
    IF ~hasApiKey THEN SportsDemo
    ELSE CASE outcome = "ok" -> SportsData
           [] OTHER -> <<>>

Outcomes == {"ok", "empty", "fail"}

\* ------------------------------------------------------- render and commit
NoTimer == [active |-> FALSE, step |-> Num(0), length |-> 0]

\* a media element: absent, or as the browser creates it (paused, unmuted)
NoElement == [exists |-> FALSE, playing |-> FALSE, volume |-> ElementVolume, muted |-> FALSE]
NewElement == [exists |-> TRUE, playing |-> FALSE, volume |-> ElementVolume, muted |-> FALSE]

\* the number of fetches in `pending`; once their Player is gone their
\* setState calls change nothing
Pending(pending) ==
    Len(pending["NEWS"]) + Len(pending["WEATHER"]) + Len(pending["SPORTS"])

\* a teardown that leaves the intervals registered
PlayerGone_Leaky(status, pending) ==
    /\ player' = status
    /\ currentIndex' = 0 /\ currentItem' = UndefinedItem /\ progress' = Num(0)
    /\ isOnline' = TRUE
    /\ news' = <<>> /\ weather' = "null" /\ sportsMatches' = <<>>
    /\ isGlobalMuted' = FALSE /\ itemStale' = FALSE /\ dirty' = {}
    /\ timer' = timer
    /\ feedTimers' = feedTimers
    /\ inflight' = [f \in Feeds |-> <<>>]
    /\ late' = late + Pending(pending)
    /\ audio' = NoElement /\ video' = NoElement

\* the Player state of an unmounted (or torn down) component; `pending` are
\* the fetches it leaves behind
PlayerGone(status, pending) ==
    /\ player' = status
    /\ currentIndex' = 0 /\ currentItem' = UndefinedItem /\ progress' = Num(0)
    /\ isOnline' = TRUE
    /\ news' = <<>> /\ weather' = "null" /\ sportsMatches' = <<>>
    /\ isGlobalMuted' = FALSE /\ itemStale' = FALSE /\ dirty' = {}
    /\ timer' = NoTimer
    /\ feedTimers' = [f \in Feeds |-> 0]
    /\ inflight' = [f \in Feeds |-> <<>>]
    /\ late' = late + Pending(pending)
    /\ audio' = NoElement /\ video' = NoElement

\* first render of <Player playlist=... />: the useState initialisers
\* (Player.tsx 15-25) and the JSX (152-170, 266-273); renderContent reads
\* currentItem.type, which throws when playlist.items[0] is undefined
MountPlayer(playlist) ==
    IF playlist.items = <<>>
    THEN PlayerGone("crashed", inflight)
    ELSE /\ player' = "mounted"
         /\ currentIndex' = 0
         /\ currentItem' = ItemAt(playlist, 0)
         /\ progress' = Num(0)
         /\ \E online \in BOOLEAN : isOnline' = online
         /\ news' = <<>> /\ weather' = "null" /\ sportsMatches' = <<>>
         /\ isGlobalMuted' = FALSE
         /\ itemStale' = FALSE
         /\ dirty' = {"feed", "audio", "playlist"}
         /\ timer' = NoTimer
         /\ feedTimers' = [f \in Feeds |-> 0]
         /\ inflight' = [f \in Feeds |-> <<>>]
         /\ late' = late
         /\ audio' = IF Truthy(playlist.audioUrl) THEN NewElement ELSE NoElement
         /\ video' = IF ItemAt(playlist, 0).type = "VIDEO" THEN NewElement ELSE NoElement

\* re-render of a mounted Player with new props: state is kept (the index is
\* not reset), the objects playlist.items and integrations are new ones
\* (JSON.parse in loadFromStorage), and the <audio> element follows audioUrl
UpdatePlayer(old, new) ==
    /\ dirty' = {"feed", "playlist"} \cup
                (IF new.audioUrl # old.audioUrl THEN {"audio"} ELSE {})
    /\ itemStale' = TRUE
    /\ audio' = IF ~Truthy(new.audioUrl) THEN NoElement
                ELSE IF ~audio.exists THEN NewElement
                ELSE IF new.audioUrl # old.audioUrl THEN [audio EXCEPT !.playing = FALSE]
                ELSE audio
    /\ UNCHANGED <<player, currentIndex, currentItem, progress, isOnline, news, weather,
                   sportsMatches, isGlobalMuted, timer, feedTimers, inflight, late, video>>

\* unmount: the cleanups of the feed effect (84-90) and the playlist effect (144)
UnmountPlayer == PlayerGone("none", inflight)

\* App commits `m` and `st` and renders (App.tsx 100-127)
Commit(m, st) ==
    /\ mode' = m
    /\ state' = st
    /\ LET was == player = "mounted"
           now == View(m, st) = "player"
       IN  CASE now /\ was -> UpdatePlayer(state.activePlaylist, st.activePlaylist)
             [] now /\ ~was -> MountPlayer(st.activePlaylist)
             [] ~now /\ was -> UnmountPlayer
             [] OTHER -> UNCHANGED <<player, playVars, isOnline, dirty, feedVars, mediaVars>>

\* every feed can take the fetch a (re)run of the feed effect starts
RoomToFetch == late <= MaxLate /\ \A f \in Feeds : Len(inflight[f]) < MaxInflight

\* handlers held back until every fetch has answered
Idle_AfterFetches ==
    player # "crashed" /\ dirty = {} /\ \A f \in Feeds : inflight[f] = <<>>

\* no handler runs before the pending effects of the last commit
Idle == player # "crashed" /\ dirty = {}

\* ------------------------------------------------------------- App actions
\* the user changes the URL fragment (address bar, back, forward)
Navigate(h) ==
    /\ Idle
    /\ h # hash
    /\ hashEvents < MaxHashEvents
    /\ hash' = h
    /\ hashEvents' = hashEvents + 1
    /\ UNCHANGED <<mode, state, terminalId, storedPlaylists, storedIntegrations, player,
                   playVars, isOnline, dirty, feedVars, mediaVars, dashVars, envVars, countVars>>

handleLocationChange ==
    /\ Idle
    /\ hashEvents > 0
    /\ RoomToFetch
    /\ hashEvents' = hashEvents - 1
    /\ LET newState == initializeState(hash, terminalId, storedPlaylists, storedIntegrations)
       IN  Commit(newState.mode, newState)
    /\ UNCHANGED <<hash, terminalId, storedPlaylists, storedIntegrations, dashVars, envVars, countVars>>

\* Dashboard calls onStartPlayer(playlist, integrations) (Dashboard.tsx
\* 203-213, 1146): the playlist is the editor's working copy or a saved one,
\* the integrations are the Dashboard's list, which it mirrors to storage
startPlayer(playlist) ==
    /\ Idle
    /\ View(mode, state) = "dashboard"
    /\ RoomToFetch
    /\ hash = "#player" \/ hashEvents < MaxHashEvents
    /\ Commit("player", [mode |-> "player", activePlaylist |-> playlist,
                         activeIntegrations |-> storedIntegrations])
    /\ hash' = "#player"
    /\ hashEvents' = IF hash # "#player" THEN hashEvents + 1 ELSE hashEvents
    /\ UNCHANGED <<terminalId, storedPlaylists, storedIntegrations, dashVars, envVars, countVars>>

\* the exit button shown in kiosk mode as well
exitPlayer_Always ==
    /\ Idle
    /\ View(mode, state) \in {"player", "error"}
    /\ Commit("dashboard", [mode |-> "dashboard", activePlaylist |-> NullPlaylist,
                            activeIntegrations |-> <<>>])
    /\ hash' = "#dashboard"
    /\ terminalId' = ""
    /\ UNCHANGED <<hashEvents, storedPlaylists, storedIntegrations, dashVars, envVars, countVars>>

\* the exit button of the Player (319-323, rendered unless isKioskMode) or
\* of the error fallback (107); pushState raises no hashchange
exitPlayer ==
    /\ Idle
    /\ \/ View(mode, state) = "error"
       \/ View(mode, state) = "player" /\ ~isKioskMode
    /\ Commit("dashboard", [mode |-> "dashboard", activePlaylist |-> NullPlaylist,
                            activeIntegrations |-> <<>>])
    /\ hash' = "#dashboard"
    /\ terminalId' = ""
    /\ UNCHANGED <<hashEvents, storedPlaylists, storedIntegrations, dashVars, envVars, countVars>>

\* the Dashboard saves a playlist or the integrations and mirrors them to
\* localStorage (Dashboard.tsx 44-48, 195-201)
persist(playlist, integrations) ==
    /\ Idle
    /\ View(mode, state) = "dashboard"
    /\ <<playlist>> # storedPlaylists \/ integrations # storedIntegrations
    /\ savedPlaylists' = <<playlist>>
    /\ storedPlaylists' = <<playlist>>
    /\ storedIntegrations' = integrations
    /\ UNCHANGED <<mode, state, hash, terminalId, hashEvents, player, playVars, isOnline,
                   dirty, feedVars, mediaVars, editingPlaylist, integrationModal, envVars,
                   countVars>>

\* ---------------------------------------------------------- Player effects
\* the audio effect (94-114), on the <audio> element `el`
AudioEffect(el, playlist, item, muted) ==
    IF ~el.exists THEN el
    ELSE IF shouldPlayBackground(playlist, muted)
         THEN [el EXCEPT !.volume = IF isVideoWithSound(item) THEN DuckedVolume
                                    ELSE NormalVolume,
                         !.playing = TRUE]
         ELSE [el EXCEPT !.playing = FALSE]

\* the video handling of the playlist effect (127-131), on the <video>
\* element `el` that the committed render holds
VideoEffect(el, item, muted) ==
    IF item.type = "VIDEO" /\ el.exists
    THEN [el EXCEPT !.muted = (item.audioEnabled = "false" \/ muted), !.playing = TRUE]
    ELSE el

\* the <video> element after the render that shows `item` in place of `shown`
\* (162-170): created paused and unmuted, reloaded when src changes
VideoRender(el, shown, item) ==
    IF item.type # "VIDEO" THEN NoElement
    ELSE IF ~el.exists THEN NewElement
    ELSE IF item.id # shown.id THEN [el EXCEPT !.playing = FALSE]
    ELSE el

\* the feed effect (36-91): cleanup of the previous run, one fetch per feed,
\* one interval per feed whose integration is enabled with a positive period
FeedStarts(pending) == [f \in Feeds |-> Append(pending[f], "cur")]

\* the playlist effect (117-146): the interval it creates
PlaylistTimer(playlist, item) ==
    [active |-> TRUE, step |-> StepOf(item), length |-> Len(playlist.items)]

\* the passive effects of the last commit, in declaration order, and the
\* render their setState calls cause
FlushEffects ==
    /\ player = "mounted"
    /\ dirty # {}
    /\ LET playlist == state.activePlaylist
           item == ItemAt(playlist, currentIndex)
           pending == IF "feed" \in dirty THEN FeedStarts(inflight) ELSE inflight
       IN  IF "playlist" \in dirty /\ item = UndefinedItem
           THEN \* item.duration of undefined throws: React tears the tree down
                PlayerGone("crashed", pending)
           ELSE /\ inflight' = pending
                /\ late' = late
                /\ feedTimers' = IF "feed" \in dirty
                                 THEN [f \in Feeds |->
                                          RefreshPeriod(state.activeIntegrations, f)]
                                 ELSE feedTimers
                /\ audio' = IF "audio" \in dirty
                            THEN AudioEffect(audio, playlist, currentItem, isGlobalMuted)
                            ELSE audio
                /\ IF "playlist" \in dirty
                   THEN /\ currentItem' = item
                        /\ progress' = Num(0)
                        /\ timer' = PlaylistTimer(playlist, item)
                        /\ video' = VideoRender(VideoEffect(video, item, isGlobalMuted),
                                                currentItem, item)
                        /\ itemStale' = FALSE
                        /\ dirty' = IF itemStale THEN {"audio"} ELSE {}
                   ELSE /\ dirty' = {}
                        /\ UNCHANGED <<currentItem, progress, timer, video, itemStale>>
                /\ UNCHANGED <<player, currentIndex, isOnline, news, weather,
                               sportsMatches, isGlobalMuted>>
    /\ UNCHANGED <<appVars, dashVars, envVars, countVars>>

\* --------------------------------------------------------- Player handlers
\* the interval callback (133-142): setProgress with its updater
TickBody ==
    /\ player = "mounted"
    /\ Idle
    /\ timer.active
    /\ progress.k # "fin" \/ NumGE(progress, 0 - 10 * MaxStuck)
    /\ IF NumGE(progress, 100)
       THEN /\ timer' = NoTimer
            /\ currentIndex' = handleNext(currentIndex, timer.length)
            /\ progress' = Num(0)
            /\ itemStale' = (currentIndex' # currentIndex)
            /\ dirty' = IF currentIndex' # currentIndex THEN {"audio", "playlist"} ELSE {}
       ELSE /\ progress' = NumAdd(progress, timer.step)
            /\ UNCHANGED <<timer, currentIndex, itemStale, dirty>>
    /\ UNCHANGED <<appVars, player, currentItem, isGlobalMuted, isOnline, feedVars,
                   mediaVars, dashVars, envVars>>

Tick == TickBody /\ UNCHANGED countVars

\* the same callback, counted
TickCounted ==
    /\ ticks < MaxTicks
    /\ TickBody
    /\ ticks' = ticks + 1
    /\ advances' = IF NumGE(progress, 100) THEN advances + 1 ELSE advances
    /\ UNCHANGED startIndex

\* the mute button (314-318)
toggleMute ==
    /\ player = "mounted"
    /\ Idle
    /\ isGlobalMuted' = ~isGlobalMuted
    /\ dirty' = {"audio", "playlist"}
    /\ UNCHANGED <<appVars, player, currentIndex, currentItem, progress, itemStale, timer,
                   isOnline, feedVars, mediaVars, dashVars, envVars, countVars>>

\* handleOnline / handleOffline (78-82)
connectivity(online) ==
    /\ player = "mounted"
    /\ Idle
    /\ online # isOnline
    /\ isOnline' = online
    /\ UNCHANGED <<appVars, player, playVars, dirty, feedVars, mediaVars, dashVars, envVars,
                   countVars>>

\* a refresh interval fires (66-76): fetchNews, fetchWeather or fetchSports
\* starts its request
refresh(f) ==
    /\ player = "mounted"
    /\ Idle
    /\ feedTimers[f] > 0
    /\ Len(inflight[f]) < MaxInflight
    /\ inflight' = [inflight EXCEPT ![f] = Append(@, "cur")]
    /\ UNCHANGED <<appVars, player, playVars, isOnline, dirty, news, weather,
                   sportsMatches, feedTimers, late, mediaVars, dashVars, envVars, countVars>>

RemoveAt(seq, i) == SubSeq(seq, 1, i - 1) \o SubSeq(seq, i + 1, Len(seq))

\* the fetches left pending when the i-th answers: those started before it
\* have been overtaken
Overtake(pending, i) ==
    [j \in 1..(Len(pending) - 1) |-> IF j < i THEN "overtaken" ELSE pending[j + 1]]

\* the value setNews, setWeather and setSportsMatches receive (37-50)
NewsAfter(outcome) == fetchSimulatedNews(outcome)
WeatherAfter(outcome) == fetchSimulatedWeather(outcome)
SportsAfter(outcome) == fetchSimulatedSports(outcome)

\* the i-th pending request of feed f settles and the awaiting fetchNews,
\* fetchWeather or fetchSports resumes
fetched(f, i, outcome) ==
    /\ player = "mounted"
    /\ Idle
    /\ i \in DOMAIN inflight[f]
    /\ hasApiKey \/ outcome = "ok"
    /\ inflight' = [inflight EXCEPT ![f] = Overtake(@, i)]
    /\ news' = IF f = "NEWS" THEN NewsAfter(outcome) ELSE news
    /\ weather' = IF f = "WEATHER" THEN WeatherAfter(outcome) ELSE weather
    /\ sportsMatches' = IF f = "SPORTS" THEN SportsAfter(outcome) ELSE sportsMatches
    /\ UNCHANGED <<appVars, player, playVars, isOnline, dirty, feedTimers, late, mediaVars,
                   dashVars, envVars, countVars>>

\* the <video> of the displayed slide fails to load, decode or play: the
\* element stops; the Player registers no handler for it (162-170) and the
\* rejected play() is only logged (130)
mediaError ==
    /\ player = "mounted"
    /\ Idle
    /\ video.exists
    /\ video.playing
    /\ video' = [video EXCEPT !.playing = FALSE]
    /\ UNCHANGED <<appVars, player, playVars, isOnline, dirty, feedVars, audio, dashVars, envVars,
                   countVars>>

\* a request of a Player that is gone settles: React drops the setState
lateResponse ==
    /\ player = "crashed" \/ dirty = {}
    /\ late > 0
    /\ late' = late - 1
    /\ UNCHANGED <<appVars, player, playVars, isOnline, dirty, news, weather,
                   sportsMatches, feedTimers, inflight, mediaVars, dashVars, envVars, countVars>>

\* ------------------------------------------------------------ specification
Hashes == {"#player", "#dashboard"}
TerminalIds == {"", "t1"}

\* the state after the page has loaded (App.tsx 8, 62) with one of the
\* playlist lists `stored` in storage
LoadedFrom(stored) ==
    /\ mode = "dashboard"
    /\ editingPlaylist = NullPlaylist
    /\ integrationModal = ModalClosed
    /\ hash \in {"", "#player"}
    /\ terminalId \in library.terminalIds
    /\ hashEvents = 0
    /\ storedPlaylists \in stored
    /\ savedPlaylists = storedPlaylists
    /\ storedIntegrations \in library.integrations
    /\ state = initializeState(hash, terminalId, storedPlaylists, storedIntegrations)
    /\ player = "none"
    /\ currentIndex = 0 /\ currentItem = UndefinedItem /\ progress = Num(0)
    /\ isOnline = TRUE
    /\ news = <<>> /\ weather = "null" /\ sportsMatches = <<>>
    /\ isGlobalMuted = FALSE /\ itemStale = FALSE /\ dirty = {}
    /\ timer = NoTimer
    /\ feedTimers = [f \in Feeds |-> 0]
    /\ inflight = [f \in Feeds |-> <<>>]
    /\ late = 0
    /\ audio = NoElement /\ video = NoElement
    /\ ticks = 0 /\ advances = 0 /\ startIndex = 0

\* storage holds what an earlier Dashboard session left there
Loaded == LoadedFrom({<<p>> : p \in library.playlists})

\* playback: every playlist version, the demo fetchers, one refreshing feed
Init ==
    /\ hasApiKey = FALSE
    /\ isKioskMode = FALSE
    /\ library = [playlists |-> Playlists, integrations |-> {NewsOnly},
                  terminalIds |-> {""}]
    /\ Loaded

Next ==
    \/ \E h \in Hashes : Navigate(h)
    \/ handleLocationChange
    \/ \E p \in library.playlists : startPlayer(p)
    \/ exitPlayer
    \/ \E p \in library.playlists, l \in library.integrations : persist(p, l)
    \/ FlushEffects
    \/ Tick
    \/ toggleMute
    \/ \E b \in BOOLEAN : connectivity(b)
    \/ \E f \in Feeds : refresh(f)
    \/ \E f \in Feeds, o \in Outcomes : fetched(f, 1, o)
    \/ lateResponse

Spec == Init /\ [][Next]_vars

\* feeds: one playlist, every integration list, with and without an API key
InitFeeds ==
    /\ hasApiKey \in BOOLEAN
    /\ isKioskMode = FALSE
    /\ library = [playlists |-> {SoloPlaylist}, integrations |-> IntegrationLists,
                  terminalIds |-> {""}]
    /\ Loaded

SpecFeeds == InitFeeds /\ [][Next]_vars

\* ------------------------------------------------------------ overlay
\* getOverlayStyle with isBold === true as the test for bold
getOverlayStyle_BoldOnRequest(item) ==
    LET style == IF item.overlayStyle = <<>>
                 THEN OverlayStyle("undefined", "undefined", "undefined", "undefined")
                 ELSE item.overlayStyle[1]
    IN  [color |-> IF Truthy(style.textColor) THEN style.textColor ELSE "#ffffff",
         backgroundColor |-> IF Truthy(style.backgroundColor) THEN style.backgroundColor
                             ELSE "rgba(0,0,0,0.4)",
         fontWeight |-> IF style.isBold = "true" THEN "bold" ELSE "normal",
         fontSizeClass |-> IF style.fontSize = "sm" THEN "text-3xl"
                           ELSE IF style.fontSize = "md" THEN "text-5xl"
                           ELSE IF style.fontSize = "xl" THEN "text-8xl"
                           ELSE "text-6xl"]

\* getOverlayStyle (Player.tsx 250-264); item.overlayStyle || {} leaves every
\* field undefined
getOverlayStyle(item) ==
    LET style == IF item.overlayStyle = <<>>
                 THEN OverlayStyle("undefined", "undefined", "undefined", "undefined")
                 ELSE item.overlayStyle[1]
    IN  [color |-> IF Truthy(style.textColor) THEN style.textColor ELSE "#ffffff",
         backgroundColor |-> IF Truthy(style.backgroundColor) THEN style.backgroundColor
                             ELSE "rgba(0,0,0,0.4)",
         fontWeight |-> IF style.isBold # "false" THEN "bold" ELSE "normal",
         fontSizeClass |-> IF style.fontSize = "sm" THEN "text-3xl"
                           ELSE IF style.fontSize = "md" THEN "text-5xl"
                           ELSE IF style.fontSize = "xl" THEN "text-8xl"
                           ELSE "text-6xl"]

\* const overlayStyles = getOverlayStyle(currentItem) (266)
overlayStyles == getOverlayStyle(currentItem)

\* the step of the type scale a size class names (253-256)
Scale(fontSizeClass) ==
    CASE fontSizeClass = "text-3xl" -> 3
      [] fontSizeClass = "text-5xl" -> 5
      [] fontSizeClass = "text-6xl" -> 6
      [] fontSizeClass = "text-8xl" -> 8

\* the overlay styles a stored slide can carry: any field omitted, an empty
\* string, a colour, each size of the type and a value outside it
OverlayStyles ==
    { OverlayStyle(c, b, w, z) :
        c \in {"undefined", "", "#ff0000"},
        b \in {"undefined", "#00000080"},
        w \in {"undefined", "true", "false"},
        z \in {"undefined", "sm", "md", "lg", "xl", "xxl"} }

\* a playlist whose first slide carries `overlay` (<<>> or <<style>>)
Poster(overlay) ==
    Playlist("p1",
             << [Slide("m1", "IMAGE", Num(1), "undefined", "") EXCEPT !.overlayStyle = overlay],
                Slide("m2", "IMAGE", Num(1), "undefined", "") >>,
             "undefined", TRUE)

\* racing: a Player with a key, settled on its slide with every feed
\* refreshing, while two fetches of one or more feeds are pending
InitRace ==
    \E racing \in (SUBSET Feeds) \ {{}} :
        /\ hasApiKey = TRUE
        /\ isKioskMode = FALSE
        /\ library = [playlists |-> {Poster(<<>>)}, integrations |-> {AllFeeds},
                      terminalIds |-> {""}]
        /\ mode = "player"
        /\ editingPlaylist = NullPlaylist
        /\ integrationModal = ModalClosed
        /\ state = [mode |-> "player", activePlaylist |-> Poster(<<>>),
                    activeIntegrations |-> AllFeeds]
        /\ hash = "#player" /\ terminalId = "" /\ hashEvents = 0
        /\ storedPlaylists = <<Poster(<<>>)>> /\ storedIntegrations = AllFeeds
        /\ savedPlaylists = storedPlaylists
        /\ player = "mounted"
        /\ currentIndex = 0 /\ currentItem = ItemAt(Poster(<<>>), 0)
        /\ progress = Num(0)
        /\ isOnline = TRUE
        /\ news \in {NewsData, NewsError}
        /\ weather = "data" /\ sportsMatches = SportsData
        /\ isGlobalMuted = FALSE /\ itemStale = FALSE /\ dirty = {}
        /\ timer = PlaylistTimer(Poster(<<>>), currentItem)
        /\ feedTimers = [f \in Feeds |-> RefreshPeriod(AllFeeds, f)]
        /\ inflight = [f \in Feeds |-> IF f \in racing THEN <<"cur", "cur">> ELSE <<>>]
        /\ late = 0
        /\ audio = NoElement /\ video = NoElement
        /\ ticks = 0 /\ advances = 0 /\ startIndex = 0

\* the responses arrive in any order
NextRace ==
    \/ \E f \in Feeds, i \in 1..2, o \in Outcomes : fetched(f, i, o)
    \/ \E f \in Feeds : refresh(f)
    \/ Tick
    \/ FlushEffects
    \/ exitPlayer
    \/ lateResponse

SpecRace == InitRace /\ [][NextRace]_vars

\* ------------------------------------------------------------- editor
\* removeSlide (Dashboard.tsx 351-356) on the editor's working copy
removeSlide(playlist, id) ==
    [playlist EXCEPT !.items = SelectSeq(@, LAMBDA i : i.id # id)]

\* updateSlideField (320-326): the slide `id` with `field` set to `value`
updateSlideField(playlist, id, field, value) ==
    [playlist EXCEPT !.items =
        [k \in DOMAIN @ |-> IF @[k].id = id THEN [@[k] EXCEPT ![field] = value] ELSE @[k]]]

\* updateSlideStyle (328-335): { ...currentItem.overlayStyle, [field]: value }
updateSlideStyle(playlist, id, field, value) ==
    LET hits == {k \in DOMAIN playlist.items : playlist.items[k].id = id}
        selected == Find(playlist.items, hits)
        style == IF selected[1].overlayStyle = <<>>
                 THEN OverlayStyle("undefined", "undefined", "undefined", "undefined")
                 ELSE selected[1].overlayStyle[1]
    IN  IF selected = <<>> THEN playlist
        ELSE updateSlideField(playlist, id, "overlayStyle", << [style EXCEPT ![field] = value] >>)

\* moveSlide (337-349): the slide `id` swapped with its neighbour
moveSlide(playlist, id, direction) ==
    LET items == playlist.items
        hits == {k \in DOMAIN items : items[k].id = id}
        index == CHOOSE k \in hits : \A j \in hits : k <= j
        other == IF direction = "up" THEN index - 1 ELSE index + 1
    IN  IF hits = {} \/ other \notin DOMAIN items THEN playlist
        ELSE [playlist EXCEPT !.items =
                 [k \in DOMAIN items |-> IF k = index THEN items[other]
                                         ELSE IF k = other THEN items[index]
                                         ELSE items[k]]]

\* updatePlaylistSettings (358-368) for a field of the playlist itself
updatePlaylistSettings(playlist, field, value) == [playlist EXCEPT ![field] = value]

\* handleFileUpload replacing the media of the slide `id` (152-166): the
\* type follows the file
replaceMedia(playlist, id, type) == updateSlideField(playlist, id, "type", type)

\* handleSavePlaylist replacing the first playlist whatever its id
Saved_First(list, editing) ==
    [k \in DOMAIN list |-> IF k = 1 THEN editing ELSE list[k]]

\* playlists.map(p => p.id === editingPlaylist.id ? editingPlaylist : p) (197)
Saved(list, editing) ==
    [k \in DOMAIN list |-> IF list[k].id = editing.id THEN editing ELSE list[k]]

\* JSON.parse(JSON.stringify(playlist)) (45-48, 189; App.tsx 11-19): NaN and
\* Infinity are written as null
JsonNull == [k |-> "null", n |-> 0, d |-> 1]

JsonCopy(playlist) ==
    [playlist EXCEPT !.items =
        [k \in DOMAIN @ |-> [@[k] EXCEPT !.duration = IF @.k = "fin" THEN @ ELSE JsonNull]]]

\* openEditor (187-193)
openEditor(playlist) ==
    /\ Idle
    /\ View(mode, state) = "dashboard"
    /\ editingPlaylist' = JsonCopy(playlist)
    /\ UNCHANGED <<appVars, savedPlaylists, integrationModal, player, playVars, isOnline, dirty, feedVars,
                   mediaVars, envVars, countVars>>

\* an editing handler stores the new working copy `draft` (51)
setEditingPlaylist(draft) ==
    /\ Idle
    /\ View(mode, state) = "dashboard"
    /\ ~IsNull(editingPlaylist)
    /\ draft # editingPlaylist
    /\ editingPlaylist' = draft
    /\ UNCHANGED <<appVars, savedPlaylists, integrationModal, player, playVars, isOnline, dirty, feedVars,
                   mediaVars, envVars, countVars>>

\* handleSavePlaylist (195-201) and the persist effect of playlists (47)
handleSavePlaylist ==
    /\ Idle
    /\ View(mode, state) = "dashboard"
    /\ ~IsNull(editingPlaylist)
    /\ savedPlaylists' = Saved(savedPlaylists, editingPlaylist)
    /\ savedPlaylists' # savedPlaylists
    /\ storedPlaylists' = [k \in DOMAIN savedPlaylists' |-> JsonCopy(savedPlaylists'[k])]
    /\ UNCHANGED <<mode, state, hash, terminalId, hashEvents, storedIntegrations,
                   editingPlaylist, integrationModal, player, playVars, isOnline, dirty, feedVars,
                   mediaVars, envVars, countVars>>

\* a second saved playlist
SecondPlaylist ==
    Playlist("p2", << Slide("m6", "IMAGE", Num(1), "undefined", "") >>, "", FALSE)

\* editing: storage holds p2 and p1; the user edits p1
InitEdit ==
    /\ hasApiKey = FALSE
    /\ isKioskMode = FALSE
    /\ library = [playlists |-> {ClipPlaylist}, integrations |-> {NewsOnly},
                  terminalIds |-> {""}]
    /\ LoadedFrom({<<SecondPlaylist, ClipPlaylist>>})

SlideIds == {"m1", "m2"}

NextEdit ==
    \/ \E k \in DOMAIN savedPlaylists : savedPlaylists[k].id = "p1" /\ openEditor(savedPlaylists[k])
    \/ \E id \in SlideIds :
           setEditingPlaylist(updateSlideField(editingPlaylist, id, "duration", NaN))
    \/ \E id \in SlideIds :
           setEditingPlaylist(updateSlideStyle(editingPlaylist, id, "fontSize", "xl"))
    \/ \E id \in SlideIds, direction \in {"up", "down"} :
           setEditingPlaylist(moveSlide(editingPlaylist, id, direction))
    \/ \E id \in SlideIds : setEditingPlaylist(removeSlide(editingPlaylist, id))
    \/ setEditingPlaylist(updatePlaylistSettings(editingPlaylist, "audioUrl", "radio"))
    \/ \E id \in SlideIds : setEditingPlaylist(replaceMedia(editingPlaylist, id, "IMAGE"))
    \/ handleSavePlaylist

SpecEdit == InitEdit /\ [][NextEdit]_vars

\* -------------------------------------------------------- integrations
\* the Dashboard's integrations list is storedIntegrations: its persist
\* effect mirrors every change to storage (Dashboard.tsx 42, 48)
\* the id of a created integration, `api_${Date.now()}` (281)
NewId == "api_1"

\* the list entry a form stands for; a created one is forced enabled, with
\* refreshInterval || 15 and type || OTHER (279-287)
AsIntegration(current) ==
    [id |-> current.id, type |-> current.type, enabled |-> current.enabled,
     refreshInterval |-> current.refreshInterval]

NewIntegration(current) ==
    [id |-> NewId,
     type |-> IF current.type = "" THEN "OTHER" ELSE current.type,
     enabled |-> TRUE,
     refreshInterval |-> IF current.refreshInterval = 0 THEN 15
                         ELSE current.refreshInterval]

\* the list handleSaveIntegration passes to setIntegrations (274-290)
SavedIntegrations(list, current) ==
    IF current.id # ""
    THEN [k \in DOMAIN list |-> IF list[k].id = current.id THEN AsIntegration(current)
                                ELSE list[k]]
    ELSE Append(list, NewIntegration(current))

\* new URL(url) throws for a URL without a scheme (224)
WellFormed(url) == url \in {"https://feed"}

\* how checkUrlConnection can end for `url` (217-258)
CheckResults(url) ==
    IF WellFormed(url) THEN {"reachable", "unreachable", "timeout"} ELSE {"malformed"}

\* the integration form is opened on `form`: a new integration or the copy
\* of a listed one
openIntegrationModal(form) ==
    /\ Idle
    /\ View(mode, state) = "dashboard"
    /\ ~integrationModal.show
    /\ form.id = "" \/ \E k \in DOMAIN storedIntegrations : storedIntegrations[k].id = form.id
    /\ integrationModal' = [integrationModal EXCEPT !.show = TRUE, !.current = form,
                                                     !.urlTestStatus = "idle"]
    /\ UNCHANGED <<appVars, savedPlaylists, editingPlaylist, player, playVars, isOnline,
                   dirty, feedVars, mediaVars, envVars, countVars>>

\* Cancelar or the close button (543, 716): the modal closes, a check that
\* is under way goes on
closeIntegrationModal ==
    /\ Idle
    /\ View(mode, state) = "dashboard"
    /\ integrationModal.show
    /\ integrationModal' = [integrationModal EXCEPT !.show = FALSE]
    /\ UNCHANGED <<appVars, savedPlaylists, editingPlaylist, player, playVars, isOnline,
                   dirty, feedVars, mediaVars, envVars, countVars>>

\* handleSaveIntegration up to its await (260-268); the button is disabled
\* while a check runs (719); the call keeps the integrations and the
\* currentIntegration of the render it was made in
handleSaveIntegration ==
    /\ Idle
    /\ View(mode, state) = "dashboard"
    /\ integrationModal.show
    /\ integrationModal.awaiting = <<>>
    /\ integrationModal.current.id # "" \/
           \A k \in DOMAIN storedIntegrations : storedIntegrations[k].id # NewId
    /\ LET current == integrationModal.current
       IN  integrationModal' =
               IF current.name = "" \/ current.endpointUrl = ""
               THEN [integrationModal EXCEPT !.urlTestStatus = "error"]
               ELSE [integrationModal EXCEPT
                        !.urlTestStatus = "idle",
                        !.awaiting = << [integrations |-> storedIntegrations,
                                         current |-> current] >>]
    /\ integrationModal' # integrationModal
    /\ UNCHANGED <<appVars, savedPlaylists, editingPlaylist, player, playVars, isOnline,
                   dirty, feedVars, mediaVars, envVars, countVars>>

\* checkUrlConnection settles with `result` and handleSaveIntegration
\* resumes (217-258, 269-294)
checkUrlConnection(result) ==
    /\ Idle
    /\ View(mode, state) = "dashboard"
    /\ integrationModal.awaiting # <<>>
    /\ LET call == integrationModal.awaiting[1]
       IN  /\ result \in CheckResults(call.current.endpointUrl)
           /\ IF result = "reachable"
              THEN /\ storedIntegrations' = SavedIntegrations(call.integrations, call.current)
                   /\ integrationModal' = [show |-> FALSE, current |-> EmptyForm,
                                           urlTestStatus |-> "success", awaiting |-> <<>>]
              ELSE /\ storedIntegrations' = storedIntegrations
                   /\ integrationModal' = [integrationModal EXCEPT !.urlTestStatus = "error",
                                                                    !.awaiting = <<>>]
    /\ UNCHANGED <<mode, state, hash, terminalId, hashEvents, storedPlaylists,
                   savedPlaylists, editingPlaylist, player, playVars, isOnline,
                   dirty, feedVars, mediaVars, envVars, countVars>>

\* deleteIntegration (297-301), confirmed; the list is behind the modal
deleteIntegration(id) ==
    /\ Idle
    /\ View(mode, state) = "dashboard"
    /\ ~integrationModal.show
    /\ \E k \in DOMAIN storedIntegrations : storedIntegrations[k].id = id
    /\ storedIntegrations' = SelectSeq(storedIntegrations, LAMBDA i : i.id # id)
    /\ UNCHANGED <<mode, state, hash, terminalId, hashEvents, storedPlaylists, dashVars,
                   player, playVars, isOnline, dirty, feedVars, mediaVars, envVars,
                   countVars>>

\* the forms the user fills in: a new weather feed, one with no name, one
\* whose URL has no scheme, and the listed news feed edited
Forms ==
    { Form("", "Clima", "https://feed", "WEATHER", TRUE, 0),
      Form("", "", "https://feed", "NEWS", TRUE, 15),
      Form("", "RSS", "feed", "NEWS", TRUE, 15),
      Form("NEWS", "G1", "https://feed", "NEWS", FALSE, 30) }

InitIntegrations ==
    /\ hasApiKey = FALSE
    /\ isKioskMode = FALSE
    /\ library = [playlists |-> {ClipPlaylist}, integrations |-> {WeatherOff},
                  terminalIds |-> {""}]
    /\ Loaded

NextIntegrations ==
    \/ \E form \in Forms : openIntegrationModal(form)
    \/ closeIntegrationModal
    \/ handleSaveIntegration
    \/ \E result \in {"reachable", "unreachable", "timeout", "malformed"} :
           checkUrlConnection(result)
    \/ \E id \in {"NEWS", "WEATHER", NewId} : deleteIntegration(id)

SpecIntegrations == InitIntegrations /\ [][NextIntegrations]_vars

\* the working copies the editor reaches from `playlist` with its trash button
RECURSIVE Drafts(_)
Drafts(playlist) ==
    {playlist} \cup
    UNION {Drafts(removeSlide(playlist, playlist.items[k].id)) : k \in DOMAIN playlist.items}

\* editing: the playlists the Dashboard saves or plays are the drafts of p1,
\* which storage holds whole at load
InitEditor ==
    /\ hasApiKey = FALSE
    /\ isKioskMode = FALSE
    /\ library = [playlists |-> Drafts(ClipPlaylist), integrations |-> {NewsOnly},
                  terminalIds |-> {""}]
    /\ Loaded
    /\ storedPlaylists = <<ClipPlaylist>>

SpecEditor == InitEditor /\ [][Next]_vars

\* kiosk: a host that renders the Player with or without isKioskMode
\* (Player.tsx 11, 14; App.tsx passes none, which is false)
InitKiosk ==
    /\ hasApiKey = FALSE
    /\ isKioskMode \in BOOLEAN
    /\ library = [playlists |-> {ClipPlaylist}, integrations |-> {NewsOnly, WeatherOff},
                  terminalIds |-> {""}]
    /\ Loaded

SpecKiosk == InitKiosk /\ [][Next]_vars

\* resolving: storage holds p1 or an empty playlist list; the page is opened
\* with no terminal, a known one or an unknown one
InitResolve ==
    /\ hasApiKey = FALSE
    /\ isKioskMode = FALSE
    /\ library = [playlists |-> {ClipPlaylist}, integrations |-> {NewsOnly},
                  terminalIds |-> {"", "t1", "t9"}]
    /\ LoadedFrom({<<>>, <<ClipPlaylist>>})

\* handleStartFromTerminals (Dashboard.tsx 209-213): the terminal's playlist
\* or playlists[0], which is undefined for an empty list
StoredPlaylist == IF storedPlaylists = <<>> THEN NullPlaylist ELSE storedPlaylists[1]

NextResolve ==
    \/ \E h \in Hashes : Navigate(h)
    \/ handleLocationChange
    \/ startPlayer(StoredPlaylist)
    \/ exitPlayer
    \/ FlushEffects
    \/ Tick
    \/ \E f \in Feeds : fetched(f, 1, "ok")

SpecResolve == InitResolve /\ [][NextResolve]_vars

\* counting: a Player that has just settled on slide startIndex of a playlist
\* of n slides of d seconds, left to its interval
Runs == {<<n, 1>> : n \in 1..MaxLen} \cup {<<3, 5>>}

\* a Player settled on a slide of `playlist` while the fetches of the feeds
\* in `waiting` have not answered yet
RunOn(playlist, waiting) ==
        /\ hasApiKey = FALSE
        /\ isKioskMode = FALSE
        /\ library = [playlists |-> {playlist}, integrations |-> {<<>>}, terminalIds |-> {""}]
        /\ mode = "player"
        /\ editingPlaylist = NullPlaylist
        /\ integrationModal = ModalClosed
        /\ state = [mode |-> "player", activePlaylist |-> playlist, activeIntegrations |-> <<>>]
        /\ hash = "#player" /\ terminalId = "" /\ hashEvents = 0
        /\ storedPlaylists = <<playlist>> /\ storedIntegrations = <<>>
        /\ savedPlaylists = storedPlaylists
        /\ player = "mounted"
        /\ startIndex \in 0..(Len(playlist.items) - 1)
        /\ currentIndex = startIndex
        /\ currentItem = ItemAt(playlist, startIndex)
        /\ progress = Num(0)
        /\ isOnline = TRUE
        /\ news = IF "NEWS" \in waiting THEN <<>> ELSE NewsDemo
        /\ weather = IF "WEATHER" \in waiting THEN "null" ELSE "demo"
        /\ sportsMatches = IF "SPORTS" \in waiting THEN <<>> ELSE SportsDemo
        /\ isGlobalMuted = FALSE /\ itemStale = FALSE /\ dirty = {}
        /\ timer = PlaylistTimer(playlist, currentItem)
        /\ feedTimers = [f \in Feeds |-> 0]
        /\ inflight = [f \in Feeds |-> IF f \in waiting THEN <<"cur">> ELSE <<>>]
        /\ late = 0
        /\ audio = NoElement /\ video = NoElement
        /\ ticks = 0 /\ advances = 0

RunStart(waiting) == \E run \in Runs : RunOn(Uniform(run[1], run[2]), waiting)

InitRun == RunStart({})

NextRun == TickCounted \/ FlushEffects

SpecRun == InitRun /\ [][NextRun]_vars

\* the same, with the fetch of one or more feeds pending and never answered
InitStalled == \E waiting \in (SUBSET Feeds) \ {{}} : RunStart(waiting)

SpecStalled == InitStalled /\ [][NextRun]_vars

\* a Player settled on a slide of a playlist with an overlay of any style
InitOverlay ==
    \E overlay \in {<<>>} \cup {<<style>> : style \in OverlayStyles} :
        RunOn(Poster(overlay), {})

SpecOverlay == InitOverlay /\ [][NextRun]_vars

\* the playback loop on its own (133-150): index and progress after one
\* interval callback at `index` and `old` on `playlist`
PlayStep(playlist, index, old) ==
    IF NumGE(old, 100)
    THEN [index |-> handleNext(index, Len(playlist.items)), progress |-> Num(0)]
    ELSE [index |-> index,
          progress |-> NumAdd(old, StepOf(ItemAt(playlist, index)))]

\* unattended playback: the Player is started at the player route and left
\* to its intervals, its media and its feeds; the browser keeps delivering
\* the interval callbacks and React keeps flushing the effects
InitLive ==
    /\ hasApiKey = FALSE
    /\ isKioskMode = FALSE
    /\ library = [playlists |-> {ClipPlaylist, SoloPlaylist}, integrations |-> {NewsOnly},
                  terminalIds |-> {""}]
    /\ Loaded
    /\ hash = "#player"

NextLive ==
    \/ \E p \in library.playlists : startPlayer(p)
    \/ FlushEffects
    \/ Tick
    \/ mediaError
    \/ \E f \in Feeds : refresh(f)
    \/ \E f \in Feeds : fetched(f, 1, "ok")

SpecLive == InitLive /\ [][NextLive]_vars /\ WF_vars(Tick) /\ WF_vars(FlushEffects)

\* ------------------------------------------------------------------ ticker
\* one <span> of the ticker
TickerSpan(kind, source, text) == [kind |-> kind, source |-> source, text |-> text]

\* the ticker with the footer message shown next to the feeds
Ticker_Additive(item, newsItems, matches, forecast) ==
    (IF item.footerMessage # ""
     THEN << TickerSpan("footer", "", item.footerMessage) >> ELSE <<>>)
    \o [i \in DOMAIN newsItems |->
           TickerSpan("news", newsItems[i].source, newsItems[i].headline)]
    \o (IF Len(matches) > 0 THEN << TickerSpan("sports", "", matches[1]) >> ELSE <<>>)
    \o (IF forecast # "null" THEN << TickerSpan("weather", "", forecast) >> ELSE <<>>)

\* the ticker with the weather before the sports result
Ticker_WeatherFirst(item, newsItems, matches, forecast) ==
    IF item.footerMessage # ""
    THEN << TickerSpan("footer", "", item.footerMessage) >>
    ELSE [i \in DOMAIN newsItems |->
             TickerSpan("news", newsItems[i].source, newsItems[i].headline)]
         \o (IF forecast # "null" THEN << TickerSpan("weather", "", forecast) >> ELSE <<>>)
         \o (IF Len(matches) > 0 THEN << TickerSpan("sports", "", matches[1]) >> ELSE <<>>)

\* the children of the ticker <div> (339-367), rendered from currentItem and
\* the three snapshots
Ticker(item, newsItems, matches, forecast) ==
    IF item.footerMessage # ""
    THEN << TickerSpan("footer", "", item.footerMessage) >>
    ELSE [i \in DOMAIN newsItems |->
             TickerSpan("news", newsItems[i].source, newsItems[i].headline)]
         \o (IF Len(matches) > 0 THEN << TickerSpan("sports", "", matches[1]) >> ELSE <<>>)
         \o (IF forecast # "null" THEN << TickerSpan("weather", "", forecast) >> ELSE <<>>)

\* what the mounted Player shows in the ticker
TickerContent == Ticker(currentItem, news, sportsMatches, weather)

\* ---------------------------------------------------------------- properties
Settled == player = "mounted" /\ dirty = {}

Items == state.activePlaylist.items

\* x <= c for an integer c
NumLE(x, c) ==
    CASE x.k = "nan" -> FALSE
      [] x.k = "inf" -> FALSE
      [] OTHER -> x.n <= c * x.d

\* x <= y on the numbers above
NumLeq(x, y) ==
    CASE x.k = "nan" \/ y.k = "nan" -> FALSE
      [] y.k = "inf" -> TRUE
      [] x.k = "inf" -> FALSE
      [] OTHER -> x.n * y.d <= y.n * x.d

C2_AdvanceWraps ==
    /\ currentIndex = (startIndex + advances) % Len(Items)
    /\ advances = Len(Items) => currentIndex = startIndex

C2_WrappedAround ==
    /\ Len(Items) = MaxLen
    /\ startIndex = 3
    /\ advances = MaxLen
    /\ currentIndex = 3

\* C3: for every duration the editor can store, progress stays within
\* 0..100 while the Player plays, and is 0 right after the index changed
\* (the commit of an advance: a new index whose effects have not run yet).
C3_ProgressInRange ==
    /\ player = "mounted" => NumGE(progress, 0) /\ NumLE(progress, 100)
    /\ (player = "mounted" /\ itemStale /\ dirty = {"audio", "playlist"})
           => progress = Num(0)

\* the state C3 fails in: a slide of 0 seconds has step Infinity
C3_ProgressInfinite ==
    /\ player = "mounted"
    /\ currentItem.duration = Num(0)
    /\ progress = Infinity

\* C4: on a slide of a positive duration, in a playlist of two or more
\* slides that is not replaced, no step that keeps the index lowers
\* progress, whatever the Player handles
\* (tick, mute toggle, feed response, online/offline) and whatever effects
\* follow; progress returns to 0 only in a step that advances.
C4_ProgressMonotone ==
    [][ ( /\ player = "mounted" /\ player' = "mounted"
          /\ state' = state
          /\ ~itemStale
          /\ NumGE(currentItem.duration, 1)
          /\ Len(Items) >= 2
          /\ currentIndex' = currentIndex )
        => NumLeq(progress, progress') ]_vars

\* the state C4 fails from: a mute toggle in the middle of a slide
C4_MuteMidSlide ==
    /\ player = "mounted"
    /\ dirty = {"audio", "playlist"}
    /\ ~itemStale
    /\ NumGE(currentItem.duration, 1)
    /\ NumGE(progress, 10)

\* C5: counting ticks from the moment a slide of d seconds became current,
\* the index advances on tick 10 * d, the tick at which progress reaches 100.
C5_AdvanceOnTick ==
    LET d == ItemAt(state.activePlaylist, startIndex).duration.n
    IN  /\ ticks < 10 * d => advances = 0
        /\ ticks >= 10 * d => advances >= 1

\* the state C5 fails in: tick 10 * d has run, progress is 100, no advance
C5_FullButCurrent ==
    LET d == ItemAt(state.activePlaylist, startIndex).duration.n
    IN  /\ ticks = 10 * d
        /\ advances = 0
        /\ currentIndex = startIndex
        /\ progress = Num(100)

\* C6: three slides of 5 seconds started at index 0 and never muted: after
\* 160 ticks the index is 0 and progress is within 2 points of 20.
C6_Scenario ==
    ( /\ state.activePlaylist = Uniform(3, 5)
      /\ startIndex = 0
      /\ ticks = 160 )
    => /\ currentIndex = 0
       /\ NumGE(progress, 18)
       /\ NumLE(progress, 22)

\* the state C6 fails in
C6_After160Ticks ==
    /\ state.activePlaylist = Uniform(3, 5)
    /\ startIndex = 0
    /\ ticks = 160
    /\ currentIndex = 0
    /\ progress = Num(14)

\* the snapshots a step leaves alone
SnapshotKept(f) ==
    CASE f = "NEWS" -> news' = news
      [] f = "WEATHER" -> weather' = weather
      [] OTHER -> sportsMatches' = sportsMatches

\* the snapshot of feed f after a step is the one before it or the empty one
SnapshotKeptOrEmpty(f) ==
    CASE f = "NEWS" -> news' \in {news, <<>>}
      [] f = "WEATHER" -> weather' \in {weather, "null"}
      [] OTHER -> sportsMatches' \in {sportsMatches, <<>>}

\* C7: a fetch of news, weather or sports that fails leaves the snapshot of
\* its feed exactly as it was before the attempt.
C7_FailureKeepsSnapshot ==
    [][ \A f \in Feeds : fetched(f, 1, "fail") => SnapshotKept(f) ]_vars

\* the state C7 fails from: a refresh is pending over a fetched snapshot
C7_RefreshOverData ==
    /\ Settled
    /\ hasApiKey
    /\ weather = "data"
    /\ inflight["WEATHER"] # <<>>

\* C8: after a failed fetch the snapshot of its feed is the previous one or
\* the empty one (no news, no matches, no weather), no item that describes
\* the error is in the news, and the playback timer and progress are as
\* they were.
C8_FailureDegrades ==
    [][ \A f \in Feeds : fetched(f, 1, "fail") =>
            /\ SnapshotKeptOrEmpty(f)
            /\ \A i \in DOMAIN news' : news'[i].source # "Erro"
            /\ timer' = timer /\ progress' = progress /\ currentIndex' = currentIndex
      ]_vars

\* the state C8 fails in: the news snapshot holds the error item
C8_ErrorItemShown ==
    /\ player = "mounted"
    /\ hasApiKey
    /\ news = NewsError

\* C9: once the Player has settled (after a slide change, a mute toggle or
\* any other commit), the background audio plays exactly when the playlist
\* has a background-audio URL and global mute is off; otherwise it is paused.
C9_BackgroundAudio ==
    Settled =>
        ( (audio.exists /\ audio.playing)
          <=> (state.activePlaylist.audioUrl \notin {"", "undefined"} /\ ~isGlobalMuted) )

\* settled after a slide change and a mute toggle, paused although the
\* playlist has a URL
C9_PausedAfterMute ==
    /\ Settled
    /\ currentIndex = 1
    /\ state.activePlaylist.audioUrl = "radio"
    /\ isGlobalMuted
    /\ audio.exists /\ ~audio.playing

\* C10: with a background-audio URL and global mute off, once the Player has
\* settled on slide i the background volume is 0.1 when slide i is a video
\* with its audio enabled, and 0.4 when slide i is not a video or is a video
\* with audioEnabled = false: the level follows slide i and no other.
C10_Ducking ==
    LET item == ItemAt(state.activePlaylist, currentIndex)
    IN  ( /\ Settled
          /\ state.activePlaylist.audioUrl \notin {"", "undefined"}
          /\ ~isGlobalMuted )
        => /\ (item.type = "VIDEO" /\ item.audioEnabled = "true")
                => audio.volume = DuckedVolume
           /\ (item.type # "VIDEO" \/ item.audioEnabled = "false")
                => audio.volume = NormalVolume

\* settled on a video without sound that follows a video with sound
C10_NormalAfterDucked ==
    /\ Settled
    /\ state.activePlaylist = MixPlaylist
    /\ currentIndex = 2
    /\ ~isGlobalMuted
    /\ audio.volume = NormalVolume

\* C11: whenever the Player has settled on a video slide, whatever was
\* shown before it, the <video> element is playing and its muted flag is
\* (audioEnabled is false or global mute is on).
C11_VideoStarted ==
    (Settled /\ currentItem.type = "VIDEO") =>
        /\ video.exists
        /\ video.playing
        /\ video.muted = (currentItem.audioEnabled = "false" \/ isGlobalMuted)

\* the state C11 fails in: a video that follows an image was never started
C11_VideoAfterImageIdle ==
    /\ Settled
    /\ state.activePlaylist = MixPlaylist
    /\ currentIndex = 1
    /\ currentItem.type = "VIDEO"
    /\ video.exists
    /\ ~video.playing

\* C12: while the displayed slide has a non-empty footerMessage, the ticker
\* holds that message and nothing else, whatever the feeds have loaded.
C12_FooterExclusive ==
    (player = "mounted" /\ currentItem.footerMessage # "") =>
        /\ Len(TickerContent) = 1
        /\ TickerContent[1].kind = "footer"
        /\ TickerContent[1].text = currentItem.footerMessage

\* a footer slide shown while all three feeds hold data
C12_FooterOverFeeds ==
    /\ Settled
    /\ currentItem.footerMessage = "SALE TODAY"
    /\ news # <<>> /\ sportsMatches # <<>> /\ weather # "null"
    /\ TickerContent = << TickerSpan("footer", "", "SALE TODAY") >>

C14_FeedStart ==
    [][ (player = "mounted" /\ "feed" \in dirty /\ player' = "mounted") =>
            \A f \in Feeds :
                LET list == state.activeIntegrations
                    hits == {i \in DOMAIN list :
                                /\ list[i].type = f
                                /\ list[i].enabled
                                /\ list[i].refreshInterval > 0}
                IN  /\ Len(inflight'[f]) = Len(inflight[f]) + 1
                    /\ feedTimers'[f] > 0 <=> hits # {}
                    /\ feedTimers'[f] > 0 =>
                           \E i \in hits : feedTimers'[f] = list[i].refreshInterval
      ]_vars

\* the state C14 fails in: an enabled news integration of 15 minutes and no
\* news timer
C14_SecondIntegrationIgnored ==
    /\ Settled
    /\ state.activeIntegrations = NewsTwice
    /\ feedTimers["NEWS"] = 0

\* the integration list holds a WEATHER integration that is switched off
WeatherDisabled(list) ==
    \E i \in DOMAIN list : list[i].type = "WEATHER" /\ ~list[i].enabled

\* the effects pending are those of the first render of the Player
FirstEffects == "feed" \in dirty /\ ~itemStale

\* C15: in a Player session started with a disabled WEATHER integration, no
\* weather refresh timer ever exists and the only weather fetch is the one
\* the start of the Player issues.
C15_WeatherFetchedOnce ==
    [][ ( /\ player = "mounted" /\ player' = "mounted"
          /\ WeatherDisabled(state.activeIntegrations)
          /\ WeatherDisabled(state'.activeIntegrations) )
        => /\ feedTimers'["WEATHER"] = 0
           /\ Len(inflight'["WEATHER"]) > Len(inflight["WEATHER"]) => FirstEffects
      ]_vars

\* the state C15 fails in: the first weather fetch has answered, no weather
\* timer exists, and a second weather fetch is pending
C15_SecondWeatherFetch ==
    /\ Settled
    /\ WeatherDisabled(state.activeIntegrations)
    /\ ~hasApiKey
    /\ weather = "demo"
    /\ feedTimers["WEATHER"] = 0
    /\ inflight["WEATHER"] # <<>>

\* C16: once the Player is gone (exit, navigation away, teardown) neither
\* the playback interval nor a refresh interval is registered; and once the
\* Player has settled after a replacement of its playlist or integrations,
\* the intervals registered are those created for the current ones, none
\* of an earlier playlist.
C16_TimersCleared ==
    /\ player # "mounted" =>
           /\ ~timer.active
           /\ \A f \in Feeds : feedTimers[f] = 0
    /\ Settled =>
           /\ timer.active =>
                  /\ timer.length = Len(Items)
                  /\ timer.step = StepOf(ItemAt(state.activePlaylist, currentIndex))
           /\ \A f \in Feeds : feedTimers[f] = RefreshPeriod(state.activeIntegrations, f)

\* the Player was exited while fetches were pending: nothing is registered
C16_ExitedClean ==
    /\ player = "none"
    /\ mode = "dashboard"
    /\ hash = "#dashboard"
    /\ late > 0
    /\ ~timer.active
    /\ feedTimers["NEWS"] = 0

\* the interval callback that calls handleNext
Advance == Tick /\ NumGE(progress, 100)

\* C17: once a Player shows slides of positive durations, fair ticks lead
\* to an advance to the next slide again and again, whether or not the
\* media of a slide plays.
C17_EventuallyAdvances ==
    []<>(player = "mounted" /\ \A i \in DOMAIN Items : NumGE(Items[i].duration, 1))
        => []<><<Advance>>_vars

\* the state C17 fails in: the only slide of a playlist, shown again after
\* its first advance, with no interval left
C17_SingleSlideStalled ==
    /\ Settled
    /\ Len(Items) = 1
    /\ NumGE(currentItem.duration, 1)
    /\ progress = Num(0)
    /\ ~timer.active

\* C18: while fetches are pending and never answered, the interval callback
\* is never held back, and each callback moves the index and progress as
\* the playback loop does on its own.
FetchPending == \E f \in Feeds : inflight[f] # <<>>

C18_PlaybackIgnoresFetches ==
    /\ []((Settled /\ FetchPending /\ timer.active /\ ticks < MaxTicks)
            => ENABLED TickCounted)
    /\ [][(player = "mounted" /\ FetchPending /\ ticks' = ticks + 1) =>
            LET alone == PlayStep(state.activePlaylist, currentIndex, progress)
            IN  /\ currentIndex' = alone.index
                /\ progress' = alone.progress
                /\ inflight' = inflight]_vars

\* a full cycle of three slides played while all three fetches are pending
C18_CycleWhilePending ==
    /\ Settled
    /\ \A f \in Feeds : inflight[f] # <<>>
    /\ Len(Items) = 3
    /\ startIndex = 0
    /\ advances = 3
    /\ currentIndex = 0

\* C19: the feeds are independent. While the Player stays mounted, the
\* snapshot of a feed changes only in a step that completes a fetch of that
\* feed, and such a step (success or failure) leaves the snapshots of the
\* other feeds and every refresh timer as they were; a refresh timer that
\* changes becomes what the integrations of its own type alone determine.
FeedSnapshot(f) ==
    IF f = "NEWS" THEN news ELSE IF f = "WEATHER" THEN weather ELSE sportsMatches

OwnConfig(list, f) == SelectSeq(list, LAMBDA c : c.type = f)

OwnPeriod(list, f) ==
    LET own == OwnConfig(list, f)
        hits == {i \in DOMAIN own : own[i].enabled}
        first == CHOOSE i \in hits : \A j \in hits : i <= j
    IN  IF hits # {} /\ own[first].refreshInterval > 0
        THEN own[first].refreshInterval ELSE 0

C19_FeedsIndependent ==
    [][(player = "mounted" /\ player' = "mounted") =>
        \A f \in Feeds :
            /\ FeedSnapshot(f)' # FeedSnapshot(f) =>
                   /\ Len(inflight'[f]) < Len(inflight[f])
                   /\ \A g \in Feeds \ {f} : /\ FeedSnapshot(g)' = FeedSnapshot(g)
                                             /\ inflight'[g] = inflight[g]
                   /\ feedTimers' = feedTimers
            /\ feedTimers'[f] # feedTimers[f] =>
                   feedTimers'[f] = OwnPeriod(state.activeIntegrations, f)]_vars

\* the news request failed while the weather and sports answers stay on
\* screen and the three refresh timers keep their own periods
C19_NewsFailedAlone ==
    /\ Settled
    /\ state.activeIntegrations = AllFeeds
    /\ news = NewsError
    /\ weather = "data"
    /\ sportsMatches = SportsData
    /\ feedTimers = [f \in Feeds |-> IF f = "NEWS" THEN 15
                                     ELSE IF f = "WEATHER" THEN 60 ELSE 5]

StyleOf(item) ==
    IF item.overlayStyle = <<>>
    THEN OverlayStyle("undefined", "undefined", "undefined", "undefined")
    ELSE item.overlayStyle[1]

C21_OverlayDefaults ==
    player = "mounted" =>
        LET given == StyleOf(currentItem)
        IN  /\ given.textColor = "undefined" => overlayStyles.color = "#ffffff"
            /\ given.backgroundColor = "undefined" =>
                   overlayStyles.backgroundColor = "rgba(0,0,0,0.4)"
            /\ overlayStyles.fontWeight = (IF given.isBold = "false" THEN "normal" ELSE "bold")
            /\ given.fontSize = "undefined" => overlayStyles.fontSizeClass = "text-6xl"
            /\ given.textColor \notin {"undefined", ""} =>
                   overlayStyles.color = given.textColor
            /\ given.backgroundColor \notin {"undefined", ""} =>
                   overlayStyles.backgroundColor = given.backgroundColor

\* a slide on screen whose style gives only a background colour
C21_OnlyBackgroundGiven ==
    /\ Settled
    /\ ticks > 0
    /\ currentItem.overlayStyle =
           << OverlayStyle("undefined", "#00000080", "undefined", "undefined") >>
    /\ overlayStyles = [color |-> "#ffffff", backgroundColor |-> "#00000080",
                        fontWeight |-> "bold", fontSizeClass |-> "text-6xl"]

\* C22: sm, md, lg and xl give four scales in strictly ascending order, and a
\* size that is omitted or unknown gives the largest of them.
ScaleOfSize(size) ==
    Scale(getOverlayStyle(Styled(currentItem,
                                 [StyleOf(currentItem) EXCEPT !.fontSize = size])).fontSizeClass)

C22_SizeScale ==
    player = "mounted" =>
        /\ ScaleOfSize("sm") < ScaleOfSize("md")
        /\ ScaleOfSize("md") < ScaleOfSize("lg")
        /\ ScaleOfSize("lg") < ScaleOfSize("xl")
        /\ StyleOf(currentItem).fontSize \notin {"sm", "md", "lg", "xl"} =>
               Scale(overlayStyles.fontSizeClass) = ScaleOfSize("xl")

\* a slide on screen with an unknown size drawn at the scale of lg
C22_UnknownSizeAtLg ==
    /\ Settled
    /\ ticks > 0
    /\ currentItem.overlayStyle # <<>>
    /\ StyleOf(currentItem).fontSize = "xxl"
    /\ overlayStyles.fontSizeClass = "text-6xl"
    /\ ScaleOfSize("xl") = 8

\* C23: onExit runs only in a step taken from the exit control of a Player
\* on screen, which leaves the player view at once (so once per press), and
\* never while the Player runs in kiosk mode.  A call of onExit is the step
\* that leaves player mode and rewrites the URL to #dashboard with pushState,
\* which queues no hashchange.
OnExitCalled ==
    /\ player = "mounted"
    /\ player' = "none"
    /\ state'.mode = "dashboard"
    /\ hash' = "#dashboard"
    /\ terminalId' = ""
    /\ hashEvents' = hashEvents

C23_ExitOnlyOnRequest ==
    [][OnExitCalled => /\ ~isKioskMode
                       /\ Idle
                       /\ View(mode, state) = "player"
                       /\ View(mode', state') = "dashboard"]_vars

\* a kiosk Player on its second slide, settled, with no way to call onExit
C23_KioskPlaying ==
    /\ isKioskMode
    /\ Settled
    /\ currentIndex = 1
    /\ ~ENABLED exitPlayer

\* C24: the rendering switch `mode` always equals state.mode.
C24_ModeAgrees == mode = state.mode

\* loaded at #player with a playlist in storage, App shows the Dashboard,
\* where another version of the playlist has since been saved
C24_DashboardAtPlayerUrl ==
    /\ hash = "#player"
    /\ hashEvents = 0
    /\ state.mode = "player"
    /\ ~IsNull(state.activePlaylist)
    /\ mode = "dashboard"
    /\ View(mode, state) = "dashboard"
    /\ player = "none"
    /\ storedPlaylists # <<state.activePlaylist>>

\* C25: while the application stays in player mode, the playlist and the
\* integrations being played are not replaced: from startPlayer until the
\* player is left they are the ones startPlayer was given.
C25_PlayingWhatWasStarted ==
    [][(mode = "player" /\ state.mode = "player" /\ state'.mode = "player") =>
           /\ state'.activePlaylist = state.activePlaylist
           /\ state'.activeIntegrations = state.activeIntegrations]_vars

\* the Player started on the one-slide version of p1 has just been handed
\* the three-slide version in storage, its slide on screen still the old one
C25_ReplacedFromStorage ==
    /\ player = "mounted"
    /\ mode = "player"
    /\ hashEvents = 0
    /\ state.activePlaylist = MixPlaylist
    /\ storedPlaylists = <<MixPlaylist>>
    /\ currentItem = ItemAt(SoloPlaylist, 0)
    /\ itemStale

\* C26: the Player is never rendered with a null playlist: whenever a Player
\* exists state.activePlaylist is a playlist, and in player mode with no
\* playlist resolved App shows the error fallback and no Player.
C26_NoPlayerWithoutPlaylist ==
    /\ player # "none" => ~IsNull(state.activePlaylist)
    /\ (state.mode = "player" /\ IsNull(state.activePlaylist)) =>
           /\ View(mode, state) = "error"
           /\ player = "none"

\* 'Ver Tela' pressed with an empty playlist list: the fallback is on screen
C26_FallbackShown ==
    /\ storedPlaylists = <<>>
    /\ mode = "player"
    /\ state.mode = "player"
    /\ IsNull(state.activePlaylist)
    /\ View(mode, state) = "error"
    /\ player = "none"

\* C27: whenever the Player is on screen, the displayed slide currentItem is
\* the slide of the playlist at currentIndex.
C27_ShowsCurrentSlide ==
    player = "mounted" => currentItem = ItemAt(state.activePlaylist, currentIndex)

\* the render right after the advance from the first slide to the second:
\* the index is 1, the slide on screen is still the first, and the audio
\* effect of this render is about to read it
C27_OldSlideAfterAdvance ==
    /\ player = "mounted"
    /\ state.activePlaylist = MixPlaylist
    /\ currentIndex = 1
    /\ currentItem = ItemAt(MixPlaylist, 0)
    /\ dirty = {"audio", "playlist"}
    /\ TickerContent = << TickerSpan("footer", "", "SALE TODAY") >>

\* C28: with two fetches of a feed in flight the snapshot ends as the result
\* of the one started last: the answer of a fetch does not change the
\* snapshot once a fetch started after it has answered; and an answer that
\* arrives after the Player is gone changes nothing.
NumOvertaken(pending) == Cardinality({j \in DOMAIN pending : pending[j] = "overtaken"})

C28_NewestFetchWins ==
    [][/\ \A f \in Feeds :
             (player = "mounted" /\ player' = "mounted"
                 /\ Len(inflight'[f]) < Len(inflight[f])
                 /\ FeedSnapshot(f)' # FeedSnapshot(f)) =>
                 NumOvertaken(inflight'[f]) >= NumOvertaken(inflight[f])
       /\ late' < late =>
             /\ player' = player
             /\ <<news, weather, sportsMatches>>' = <<news, weather, sportsMatches>>
             /\ <<appVars, playVars, mediaVars>>' = <<appVars, playVars, mediaVars>>]_vars

\* the later of two news fetches has answered with data while the earlier
\* one, which will answer with an error, is still pending
C28_EarlierStillPending ==
    /\ Settled
    /\ news = NewsData
    /\ inflight["NEWS"] = << "overtaken" >>
    /\ ENABLED fetched("NEWS", 1, "fail")

\* C29: an editing step changes the working copy and leaves the saved
\* playlists as they are; a save keeps the length of the list, puts the
\* working copy in place of the playlist with its id and leaves every other
\* playlist as it is.
C29_EditorFrame ==
    [][/\ editingPlaylist' # editingPlaylist =>
              /\ savedPlaylists' = savedPlaylists
              /\ storedPlaylists' = storedPlaylists
       /\ savedPlaylists' # savedPlaylists =>
              /\ Len(savedPlaylists') = Len(savedPlaylists)
              /\ \A k \in DOMAIN savedPlaylists :
                     savedPlaylists'[k] = IF savedPlaylists[k].id = editingPlaylist.id
                                     THEN editingPlaylist ELSE savedPlaylists[k]]_vars

\* p1 was edited and saved, then edited further; p2 is as it was
C29_EditedAfterSave ==
    /\ Len(savedPlaylists) = 2
    /\ savedPlaylists[1] = SecondPlaylist
    /\ savedPlaylists[2].id = "p1"
    /\ savedPlaylists[2] # ClipPlaylist
    /\ editingPlaylist.id = "p1"
    /\ editingPlaylist # savedPlaylists[2]
    /\ Len(editingPlaylist.items) < Len(savedPlaylists[2].items)

\* C30: a save that ends changes the integrations only when name and URL
\* are filled in and the URL check succeeded; any other outcome leaves the
\* list as it is; and a successful save is applied to the list as it is
\* then, so that changes made during the check are kept.
SaveEnds == integrationModal.awaiting # <<>> /\ integrationModal'.awaiting = <<>>

C30_SaveIntegration ==
    [][SaveEnds =>
          LET current == integrationModal.awaiting[1].current
          IN  /\ storedIntegrations' # storedIntegrations =>
                     /\ current.name # "" /\ current.endpointUrl # ""
                     /\ integrationModal'.urlTestStatus = "success"
              /\ integrationModal'.urlTestStatus # "success" =>
                     storedIntegrations' = storedIntegrations
              /\ integrationModal'.urlTestStatus = "success" =>
                     storedIntegrations' = SavedIntegrations(storedIntegrations, current)]_vars

\* a listed feed was deleted while the save of a new one is being checked:
\* the call under way still holds the list with the deleted feed
C30_ChangedWhileChecking ==
    /\ integrationModal.awaiting # <<>>
    /\ integrationModal.awaiting[1].current.id = ""
    /\ WellFormed(integrationModal.awaiting[1].current.endpointUrl)
    /\ Len(storedIntegrations) < Len(integrationModal.awaiting[1].integrations)

====
